---- MODULE Spec2Model ----
(***************************************************************************)
(* Model of the Binance futures moving-average crossover monitor           *)
(* (monitor.py, config.py, telegram_notifier.py, main.py).                 *)
(*                                                                         *)
(* The specifications of the module share its variables:                   *)
(*   Spec          the alert state machine: detection cycles               *)
(*                 (verificar_cruzamento) over alertas_ativos and stats;   *)
(*   SpecTipo      the alert decision applied to every pair of flags;      *)
(*   SpecReinicio  the same cycles across a new monitor instance;          *)
(*   SpecDetect    detectar_cruzamento applied to bounded MA rows;         *)
(*   SpecMA        calcular_medias applied to bounded close series;        *)
(*   SpecConfig    validar_configuracao applied to bounded strategies;     *)
(*   SpecLaco      main() and the loop of iniciar_monitoramento;           *)
(*   SpecTick      executar_verificacao with one worker per symbol;        *)
(*   SpecFios      one tick with the workers at statement granularity;     *)
(*   SpecBusca     the retry loop of buscar_dados (SpecBuscaJusta adds     *)
(*                 weak fairness).                                         *)
(*                                                                         *)
(* Prices and averages are positive numbers.  The float tests of the code  *)
(* (p > r * (1 + 0.02), p < r * (1 - 0.02)) are modelled exactly on        *)
(* integers by cross-multiplying with the denominator of the fraction:     *)
(* p * 100 > r * (100 + 2).                                                *)
(***************************************************************************)
EXTENDS Integers, Sequences, FiniteSets, TLC

VARIABLES
    ma_principal,    \* self.ma_principal
    mas_referencia,  \* self.mas_referencia (ordered list)
    telegram,        \* self.telegram is not None
    alertas_ativos,  \* self.alertas_ativos: chave_alerta -> [tipo]
    stats,           \* self.stats counters
    ultimo,          \* record of the most recent detection cycle (history)
    disparo,         \* per symbol: input of the cycle that fired, while repeated
    seguidos,        \* per symbol: cycles since the fire that repeated its input
    resetou,         \* per symbol: the last cycle removed the active alert
    falhou,          \* per symbol: the delivery of the active alert's event failed
    reinicio,        \* SpecReinicio: what the replaced monitor instance left
    det,             \* SpecDetect: input and output of detectar_cruzamento
    ma,              \* SpecMA: input and output of calcular_medias
    cfg,             \* SpecConfig: input and output of validar_configuracao
    busca,           \* SpecBusca: the retry loop of buscar_dados
    laco,            \* SpecLaco: main() and the loop of iniciar_monitoramento
    tick,            \* SpecTick: the workers of executar_verificacao
    fios             \* SpecFios: the statements of the worker threads of one tick

vars == <<ma_principal, mas_referencia, telegram, alertas_ativos, stats,
          ultimo, disparo, seguidos, resetou, falhou, reinicio, det, ma,
          cfg, busca, laco, tick, fios>>

\* the state of one monitor instance with its history, and the strategy
monitor == <<telegram, alertas_ativos, stats, ultimo, disparo, seguidos,
             resetou, falhou, reinicio>>
estrategia == <<ma_principal, mas_referencia>>

-----------------------------------------------------------------------------
(* Configuration (config.py)                                               *)

\* FORCA_MINIMA_CRUZAMENTO = 0.02 as the fraction ForcaNum / ForcaDen
ForcaNum == 2
ForcaDen == 100

TIMEFRAME == "4h"

\* the symbols monitored (a sub-list of MOEDAS, which has seven)
MOEDAS == {"BTCUSDT", "ETHUSDT"}

\* ESTRATEGIA_ATUAL, and the single-reference shape of the example strategies
ESTRATEGIA_ATUAL == [ma_principal |-> "MA_7", mas_referencia |-> <<"MA_25", "MA_99">>]
Estrategias ==
    { ESTRATEGIA_ATUAL,
      [ma_principal |-> "MA_7", mas_referencia |-> <<"MA_25">>] }

\* pandas NaN: a value no price takes
NaN == -1

-----------------------------------------------------------------------------
(* Bounds of the model                                                     *)

MaxPrincipal == 106    \* principal MA values range over 96..MaxPrincipal
MaxReferencia == 100   \* reference MA values range over 98..MaxReferencia
MaxCiclos == 3         \* detection cycles per run (caps the stats counters)
MaxPeriodo == 3        \* MA windows range over 2..MaxPeriodo
MaxLen == 5            \* close series have 0..MaxLen candles
MaxClose == 3          \* closes range over 1..MaxClose
MaxRefs == 2           \* strategies validated have 0..MaxRefs references
MaxTicks == 6          \* ticks started per run of main()
MaxInstancias == 3     \* monitor instances created per run of main()
MaxSinais == 2         \* SIGTERM/SIGINT deliveries per run of main()
MaxVerificacoes == 2   \* calls of executar_verificacao per run
MaxPedidos == 5        \* requests sent by one call of buscar_dados
MaxReinicios == 1      \* monitor instances created after the first

ValoresPrincipal == 96..MaxPrincipal
ValoresReferencia == 98..MaxReferencia

-----------------------------------------------------------------------------
(* detectar_cruzamento (monitor.py 205-270)                                *)

Range(s) == { s[i] : i \in DOMAIN s }

\* [self.ma_principal] + self.mas_referencia
mas_necessarias == <<ma_principal>> \o mas_referencia

\* Variants of the limit tests: the upper limit not strict (>=), the lower test
\* with its comparison turned round
AcimaDoLimite_NaoEstrito(p, r) == p * ForcaDen >= r * (ForcaDen + ForcaNum)
AbaixoDoLimite_Invertido(p, r) == p * ForcaDen > r * (ForcaDen - ForcaNum)

\* atual[ma_ref] * (1 + FORCA_MINIMA_CRUZAMENTO) compared with the principal,
\* both sides multiplied by ForcaDen
AcimaDoLimite(p, r) == p * ForcaDen > r * (ForcaDen + ForcaNum)
AbaixoDoLimite(p, r) == p * ForcaDen < r * (ForcaDen - ForcaNum)

\* the loop of lines 230-236: False at the first reference whose upper limit
\* the principal does not exceed
RECURSIVE alta_forte_de(_, _)
alta_forte_de(atual, i) ==
    IF i > Len(mas_referencia) THEN TRUE
    ELSE IF ~AcimaDoLimite(atual[ma_principal], atual[mas_referencia[i]]) THEN FALSE
    ELSE alta_forte_de(atual, i + 1)

\* the loop of lines 239-244
RECURSIVE baixa_forte_de(_, _)
baixa_forte_de(atual, i) ==
    IF i > Len(mas_referencia) THEN TRUE
    ELSE IF ~AbaixoDoLimite(atual[ma_principal], atual[mas_referencia[i]]) THEN FALSE
    ELSE baixa_forte_de(atual, i + 1)

cruzamento_alta_forte(atual) == alta_forte_de(atual, 1)
cruzamento_baixa_forte(atual) == baixa_forte_de(atual, 1)

\* Variants of the transition test: all(...) in place of any(...), and >= in
\* place of <=
cruzou_de_fato_alta_todas(anterior) ==
    \A i \in 1..Len(mas_referencia) :
        anterior[ma_principal] <= anterior[mas_referencia[i]]
cruzou_de_fato_alta_invertido(anterior) ==
    \E i \in 1..Len(mas_referencia) :
        anterior[ma_principal] >= anterior[mas_referencia[i]]

\* any(anterior[principal] <= anterior[ma_ref] for ma_ref in mas_referencia)
cruzou_de_fato_alta(anterior) ==
    \E i \in 1..Len(mas_referencia) :
        anterior[ma_principal] <= anterior[mas_referencia[i]]

\* any(anterior[principal] >= anterior[ma_ref] for ma_ref in mas_referencia)
cruzou_de_fato_baixa(anterior) ==
    \E i \in 1..Len(mas_referencia) :
        anterior[ma_principal] >= anterior[mas_referencia[i]]

\* the check of lines 215-222: some required MA is absent from a row or NaN
FaltaMA(anterior, atual) ==
    \E i \in 1..Len(mas_necessarias) :
        LET m == mas_necessarias[i] IN
        \/ m \notin DOMAIN atual
        \/ m \notin DOMAIN anterior
        \/ atual[m] = NaN
        \/ anterior[m] = NaN

\* (None, None) of the code
SemDeteccao == [valido |-> FALSE, alta |-> FALSE, baixa |-> FALSE]

\* dados_recentes is a sequence of rows, <<anterior, atual>>; None is <<>>
detectar_cruzamento(dados_recentes) ==
    IF Len(dados_recentes) < 2 THEN SemDeteccao
    ELSE LET anterior == dados_recentes[1]
             atual == dados_recentes[2]
         IN  IF FaltaMA(anterior, atual) THEN SemDeteccao
             ELSE [valido |-> TRUE,
                   alta |-> IF cruzamento_alta_forte(atual)
                            THEN cruzou_de_fato_alta(anterior) ELSE FALSE,
                   baixa |-> IF cruzamento_baixa_forte(atual)
                             THEN cruzou_de_fato_baixa(anterior) ELSE FALSE]

-----------------------------------------------------------------------------
(* Idle values of the variables a specification does not use               *)

ChaveDe(moeda) == <<moeda, TIMEFRAME>>   \* chave_alerta = f"{moeda}_{TIMEFRAME}"

SemAlertas == [c \in {} |-> [tipo |-> "alta"]]
StatsZero == [requests_ok |-> 0, requests_error |-> 0, alertas_enviados |-> 0]
EntradaVazia == [fetch |-> "falha", dados |-> <<>>]
UltimoVazio ==
    [moeda |-> "", entrada |-> EntradaVazia, ativo_antes |-> FALSE,
     apos_reset |-> FALSE, repetida |-> FALSE, det |-> SemDeteccao,
     removeu |-> FALSE, resultado |-> {}, tentou_envio |-> FALSE,
     envio |-> "nenhum", pendente |-> FALSE, mensagem |-> "nenhuma"]
ReinicioVazio == [vezes |-> 0, ciclos_antes |-> 0, tinha_alerta |-> {},
                  pendentes |-> {}]
DetVazio == [fase |-> "parado", dados |-> <<>>, out |-> SemDeteccao]
MaVazio == [fase |-> "parado", periodos |-> {}, closes |-> <<>>, out |-> <<>>]

ResultadoVazio == [valida |-> FALSE, erro |-> ""]
CfgVazio == [fase |-> "parado", catalogo |-> <<>>, principal |-> "",
             refs |-> <<>>, out |-> ResultadoVazio]
BuscaVazia ==
    [fase |-> "parado", tentativa |-> 0, pedidos |-> 0, respostas |-> <<>>,
     espera |-> 0, retorno |-> "nenhum"]
LacoVazio ==
    [pc |-> "parado", running |-> FALSE, tentativas_erro |-> 0, instancias |-> 0,
     ticks |-> 0, sinais |-> 0, ticks_apos_sinal |-> 0, ultimo_tick |-> "nenhum",
     erros_antes |-> 0, falhas_seguidas |-> 0, ticks_apos_limite |-> 0,
     resumos |-> 0]
TickVazio ==
    [fase |-> "parado", n |-> 0, executando |-> {}, prazo |-> FALSE,
     atrasados |-> {}, notificou |-> {}, inicio |-> SemAlertas, expirados |-> 0]

FiosVazio ==
    [principal |-> "parado", pc |-> [m \in {} |-> "fim"], passo |-> "nenhum"]

\* the variables of the specifications that run no detection cycle
ForaDoMonitor ==
    /\ cfg = CfgVazio
    /\ busca = BuscaVazia
    /\ laco = LacoVazio
    /\ tick = TickVazio
    /\ fios = FiosVazio

MonitorParado ==
    /\ telegram = FALSE
    /\ alertas_ativos = SemAlertas
    /\ stats = StatsZero
    /\ ultimo = UltimoVazio
    /\ disparo = [m \in MOEDAS |-> {}]
    /\ seguidos = [m \in MOEDAS |-> 0]
    /\ resetou = [m \in MOEDAS |-> FALSE]
    /\ falhou = [m \in MOEDAS |-> FALSE]
    /\ reinicio = ReinicioVazio

-----------------------------------------------------------------------------
(* SpecDetect: detectar_cruzamento on every pair of bounded MA rows        *)

ValoresP == ValoresPrincipal \cup {NaN}
ValoresR == ValoresReferencia \cup {NaN}

\* rows of the two last bars; a strategy with one reference computes no MA_99
LinhasCurtas == { [MA_7 |-> p, MA_25 |-> a] : p \in ValoresP, a \in ValoresR }
LinhasLongas ==
    { [MA_7 |-> p, MA_25 |-> a, MA_99 |-> b] :
        p \in ValoresP, a \in ValoresR, b \in ValoresR }
LinhasDetect(refs) ==
    IF Len(refs) = 1 THEN LinhasCurtas ELSE LinhasLongas \cup LinhasCurtas

DadosDetect(refs) ==
    {<<>>} \cup { <<x>> : x \in LinhasCurtas }
           \cup { <<x, y>> : x \in LinhasDetect(refs), y \in LinhasDetect(refs) }

InitDetect ==
    /\ \E e \in Estrategias :
         /\ ma_principal = e.ma_principal
         /\ mas_referencia = e.mas_referencia
         /\ \E d \in DadosDetect(e.mas_referencia) :
              det = [fase |-> "entrada", dados |-> d, out |-> SemDeteccao]
    /\ MonitorParado
    /\ ma = MaVazio
    /\ ForaDoMonitor

Detectar ==
    /\ det.fase = "entrada"
    /\ det' = [det EXCEPT !.fase = "saida", !.out = detectar_cruzamento(det.dados)]
    /\ UNCHANGED <<estrategia, monitor, ma, cfg, busca, laco, tick, fios>>

NextDetect == Detectar

SpecDetect == InitDetect /\ [][NextDetect]_vars

\* the rows of det.dados carry every required MA, none NaN
DetCompleto ==
    /\ Len(det.dados) = 2
    /\ \A m \in Range(mas_necessarias) :
         /\ m \in DOMAIN det.dados[1] /\ det.dados[1][m] # NaN
         /\ m \in DOMAIN det.dados[2] /\ det.dados[2][m] # NaN
DetAnterior == det.dados[1]
DetAtual == det.dados[2]
Refs == Range(mas_referencia)

\* the strength tests and the transition tests as the specification words them
ForcaAlta(linha) ==
    \A r \in Refs : linha[ma_principal] * ForcaDen > linha[r] * (ForcaDen + ForcaNum)
ForcaBaixa(linha) ==
    \A r \in Refs : linha[ma_principal] * ForcaDen < linha[r] * (ForcaDen - ForcaNum)
TransicaoAlta(linha) == \E r \in Refs : linha[ma_principal] <= linha[r]
TransicaoBaixa(linha) == \E r \in Refs : linha[ma_principal] >= linha[r]

CenarioA ==
    << [MA_7 |-> 99, MA_25 |-> 100, MA_99 |-> 98],
       [MA_7 |-> 105, MA_25 |-> 100, MA_99 |-> 98] >>
CenarioB ==
    << [MA_7 |-> 103, MA_25 |-> 100, MA_99 |-> 98],
       [MA_7 |-> 105, MA_25 |-> 100, MA_99 |-> 98] >>

\* C4: with all required MAs present, detection reports UP exactly when the
\* current principal exceeds r*(1+s) for every reference and the previous
\* principal was at or below some reference; DOWN exactly when it is below
\* r*(1-s) for every reference and the previous principal was at or above some
\* reference; neither otherwise.  Scenario A yields UP.
C4_Classificacao ==
    (det.fase = "saida" /\ DetCompleto) =>
        /\ det.out.valido
        /\ det.out.alta <=> (ForcaAlta(DetAtual) /\ TransicaoAlta(DetAnterior))
        /\ det.out.baixa <=> (ForcaBaixa(DetAtual) /\ TransicaoBaixa(DetAnterior))
        /\ (det.dados = CenarioA /\ Len(mas_referencia) = 2) =>
               (det.out.alta /\ ~det.out.baixa)

C4_Witness ==
    /\ det.fase = "saida"
    /\ det.dados = CenarioA
    /\ mas_referencia = <<"MA_25", "MA_99">>
    /\ det.out.alta

\* C5: with a single reference r and a previous bar at or below r, UP is
\* reported iff p > r*(1+s) strictly, so not at p = r*(1+s); symmetrically,
\* with a previous bar at or above r, DOWN iff p < r*(1-s) strictly.
C5_LimiteEstrito ==
    (det.fase = "saida" /\ DetCompleto /\ Len(mas_referencia) = 1) =>
        LET r == mas_referencia[1]
            p == DetAtual[ma_principal]
        IN  /\ DetAnterior[ma_principal] <= DetAnterior[r] =>
                /\ det.out.alta <=> (p * ForcaDen > DetAtual[r] * (ForcaDen + ForcaNum))
                /\ p * ForcaDen = DetAtual[r] * (ForcaDen + ForcaNum) => ~det.out.alta
            /\ DetAnterior[ma_principal] >= DetAnterior[r] =>
                /\ det.out.baixa <=> (p * ForcaDen < DetAtual[r] * (ForcaDen - ForcaNum))
                /\ p * ForcaDen = DetAtual[r] * (ForcaDen - ForcaNum) => ~det.out.baixa

\* the upper boundary: one reference at 100, principal at exactly 102
C5_Witness ==
    /\ det.fase = "saida"
    /\ mas_referencia = <<"MA_25">>
    /\ det.dados = << [MA_7 |-> 99, MA_25 |-> 100], [MA_7 |-> 102, MA_25 |-> 100] >>
    /\ ~det.out.alta

\* C6: when the principal is above r*(1+s) for every reference at the previous
\* bar and at the current bar, each against its own bar's references, detection
\* reports neither UP nor DOWN.  Scenario B yields NONE.
C6_SemTransicao ==
    (det.fase = "saida" /\ DetCompleto
       /\ ForcaAlta(DetAnterior) /\ ForcaAlta(DetAtual)) =>
        (~det.out.alta /\ ~det.out.baixa)

C6_Witness ==
    /\ det.fase = "saida"
    /\ det.dados = CenarioB
    /\ mas_referencia = <<"MA_25", "MA_99">>
    /\ ForcaAlta(DetAnterior) /\ ForcaAlta(DetAtual)
    /\ ~det.out.alta /\ ~det.out.baixa

\* C7: the two strength tests of the code are never both satisfied by one
\* current bar, and detection never returns UP and DOWN together.
C7_Exclusao ==
    (det.fase = "saida" /\ DetCompleto) =>
        /\ ~(cruzamento_alta_forte(DetAtual) /\ cruzamento_baixa_forte(DetAtual))
        /\ ~(det.out.alta /\ det.out.baixa)

\* a bar that passes the DOWN strength test, reported DOWN and not UP
C7_Witness ==
    /\ det.fase = "saida" /\ DetCompleto
    /\ Len(mas_referencia) = 2
    /\ cruzamento_baixa_forte(DetAtual)
    /\ det.out.baixa /\ ~det.out.alta

-----------------------------------------------------------------------------
(* Spec: the detection cycle, verificar_cruzamento (monitor.py 272-362)    *)

\* What one cycle reads from outside: the outcome of buscar_dados ("falha" is
\* None after the retries) and, on success, the two rows calcular_medias
\* returns for the fetched candles (<<>> is its None).  The candles are the
\* exchange's, so every pair of rows is possible; the references are held at
\* 100 and 98 and the principal moves through every region they delimit.
LinhaDe(refs, p) ==
    IF Len(refs) = 1 THEN [MA_7 |-> p, MA_25 |-> 100]
    ELSE [MA_7 |-> p, MA_25 |-> 100, MA_99 |-> 98]
PrincipalAnterior == {97, 99, 103}
PrincipalAtual == {96, 97, 98, 101, 102, 104, 105, 106}
Entradas(refs) ==
    {[fetch |-> "falha", dados |-> <<>>], [fetch |-> "ok", dados |-> <<>>]}
    \cup {[fetch |-> "ok", dados |-> <<LinhaDe(refs, NaN), LinhaDe(refs, NaN)>>]}
    \cup { [fetch |-> "ok", dados |-> <<LinhaDe(refs, a), LinhaDe(refs, p)>>] :
             a \in PrincipalAnterior, p \in PrincipalAtual }

\* Variant of the strength test of the reset block: never any strength
tem_forca_nunca(atual) == FALSE

\* lines 305-314: the principal is beyond the limit of some reference
tem_forca(atual) ==
    \E i \in 1..Len(mas_referencia) :
        LET ma_ref == mas_referencia[i] IN
        /\ ma_ref \in DOMAIN atual
        /\ \/ AcimaDoLimite(atual[ma_principal], atual[ma_ref])
           \/ AbaixoDoLimite(atual[ma_principal], atual[ma_ref])

Sem(ativos, chave) == [c \in DOMAIN ativos \ {chave} |-> ativos[c]]
Com(ativos, chave, alerta) ==
    [c \in DOMAIN ativos \cup {chave} |-> IF c = chave THEN alerta ELSE ativos[c]]

\* Variant of the reset block: the alert deleted while it has strength
reset_do_alerta_invertido(ativos, chave, atual) ==
    IF chave \in DOMAIN ativos /\ tem_forca(atual) THEN Sem(ativos, chave)
    ELSE ativos

\* lines 303-318: alertas_ativos after the reset block
reset_do_alerta(ativos, chave, atual) ==
    IF chave \in DOMAIN ativos /\ ~tem_forca(atual) THEN Sem(ativos, chave)
    ELSE ativos

\* Variants of the alert condition: the active alert not consulted, and only
\* the UP flag consulted
deve_alertar_sem_supressao(d, ativos, chave) == d.alta \/ d.baixa
deve_alertar_so_alta(d, ativos, chave) == d.alta /\ chave \notin DOMAIN ativos

\* Variant of the alert condition: an alert of the other direction does not
\* suppress
deve_alertar_com_reversao(d, ativos, chave) ==
    /\ d.alta \/ d.baixa
    /\ \/ chave \notin DOMAIN ativos
       \/ ativos[chave].tipo # (IF d.alta THEN "alta" ELSE "baixa")

\* Variant of the alert condition: an alert of any symbol suppresses
deve_alertar_qualquer_chave(d, ativos, chave) ==
    (d.alta \/ d.baixa) /\ DOMAIN ativos = {}

\* line 321
deve_alertar(d, ativos, chave) ==
    (d.alta \/ d.baixa) /\ chave \notin DOMAIN ativos

\* Variant of the recorded direction: the DOWN flag read first
tipo_alerta_baixa_primeiro(d) == IF d.baixa THEN "baixa" ELSE "alta"

\* Variant of the recorded direction: the two names exchanged
tipo_alerta_invertido(d) == IF d.alta THEN "baixa" ELSE "alta"

\* line 322
tipo_alerta(d) == IF d.alta THEN "alta" ELSE "baixa"

\* lines 330-340: the dict returned (price and timestamp left out)
resultado_de(moeda, d, atual) ==
    [moeda |-> moeda, cruzamento_alta |-> d.alta, cruzamento_baixa |-> d.baixa,
     mas |-> atual]

\* telegram_notifier.py 51-59: the type the message is rendered with
tipo_da_mensagem(resultado) ==
    IF resultado.cruzamento_alta THEN "ALTA" ELSE "BAIXA"

\* lines 277-297: what detection yields for the input, (None, None) included;
\* a failed fetch or a failed calcular_medias returns before detection
deteccao(entrada) ==
    IF entrada.fetch = "ok" THEN detectar_cruzamento(entrada.dados) ELSE SemDeteccao

\* What the call of enviar_alerta at line 345 can do: return True ("ok"),
\* return False ("falha": any status but 200, or an exception it caught at
\* telegram_notifier.py 94-96), or raise ("excecao", caught at lines 351-352)
Envios == {"ok", "falha", "excecao"}

\* Variant of the send block: a failed delivery takes the alert back
alertas_apos_envio_desfaz(ativos2, chave, envio) ==
    IF envio \in {"falha", "excecao"} THEN Sem(ativos2, chave) ELSE ativos2

\* lines 343-352: alertas_ativos after the send block; the failure branch and
\* the except branch only log
alertas_apos_envio(ativos2, chave, envio) == ativos2

\* lines 299-357 on a detection d that is not (None, None); envio is what the
\* call of enviar_alerta does, "nenhum" when it is not called
Decide(moeda, entrada, d, ativos1, alerta, envio) ==
    LET chave == ChaveDe(moeda)
        removeu == chave \in DOMAIN alertas_ativos /\ chave \notin DOMAIN ativos1
        repetida == entrada \in disparo[moeda]
    IN  /\ alertas_ativos' =
             IF alerta
             THEN alertas_apos_envio(
                      Com(ativos1, chave, [tipo |-> tipo_alerta(d)]), chave, envio)
             ELSE ativos1
        /\ stats' =
             [requests_ok |->
                 stats.requests_ok + (IF entrada.fetch = "ok" THEN 1 ELSE 0),
              requests_error |->
                 stats.requests_error + (IF entrada.fetch = "ok" THEN 0 ELSE 1),
              alertas_enviados |->
                 stats.alertas_enviados + (IF envio = "ok" THEN 1 ELSE 0)]
        /\ ultimo' =
             [moeda |-> moeda, entrada |-> entrada,
              ativo_antes |-> chave \in DOMAIN alertas_ativos,
              apos_reset |-> resetou[moeda],
              repetida |-> repetida,
              det |-> d,
              removeu |-> removeu,
              resultado |-> IF alerta
                            THEN {resultado_de(moeda, d, entrada.dados[2])}
                            ELSE {},
              tentou_envio |-> alerta /\ telegram,
              envio |-> envio,
              pendente |-> moeda \in reinicio.pendentes,
              mensagem |-> IF alerta /\ telegram
                           THEN tipo_da_mensagem(
                                    resultado_de(moeda, d, entrada.dados[2]))
                           ELSE "nenhuma"]
        /\ disparo' = [disparo EXCEPT ![moeda] =
                          IF repetida THEN @ ELSE IF alerta THEN {entrada} ELSE {}]
        /\ seguidos' = [seguidos EXCEPT ![moeda] = IF repetida THEN @ + 1 ELSE 0]
        /\ resetou' = [resetou EXCEPT ![moeda] = removeu]
        /\ falhou' = [falhou EXCEPT ![moeda] =
                         IF alerta THEN envio \in {"falha", "excecao"}
                         ELSE IF chave \in DOMAIN ativos1 THEN @ ELSE FALSE]
        /\ reinicio' = [reinicio EXCEPT !.pendentes = @ \ {moeda}]

\* Variant of the early returns: a cycle without detection drops the alert
alertas_apos_reset_sem_retorno(d, ativos, chave, entrada) ==
    IF d.valido THEN reset_do_alerta(ativos, chave, entrada.dados[2])
    ELSE Sem(ativos, chave)

\* lines 277-318: the returns of lines 279, 283, 288 and 297 come before the
\* reset block, which only a cycle with a detection reaches
alertas_apos_reset(d, ativos, chave, entrada) ==
    IF d.valido THEN reset_do_alerta(ativos, chave, entrada.dados[2])
    ELSE ativos

\* lines 274-357 for moeda on one of the inputs: fetch, averages, detection,
\* reset, alert, send
Ciclo(moeda, entradas) ==
    \E entrada \in entradas :
       \E d \in {deteccao(entrada)} :
       \E ativos1 \in {alertas_apos_reset(d, alertas_ativos, ChaveDe(moeda),
                                          entrada)} :
       \E alerta \in {d.valido /\ deve_alertar(d, ativos1, ChaveDe(moeda))} :
       \E envio \in (IF alerta /\ telegram THEN Envios ELSE {"nenhum"}) :
           Decide(moeda, entrada, d, ativos1, alerta, envio)

\* One whole cycle for moeda, on any input
verificar_cruzamento(moeda) ==
    /\ stats.requests_ok + stats.requests_error < MaxCiclos
    /\ Ciclo(moeda, Entradas(mas_referencia))
    /\ UNCHANGED <<estrategia, telegram, det, ma, cfg, busca, laco, tick, fios>>

\* __init__ (lines 33-65): empty alert state, zero counters, the strategy
Init ==
    /\ \E e \in Estrategias :
         /\ ma_principal = e.ma_principal
         /\ mas_referencia = e.mas_referencia
    /\ telegram \in BOOLEAN
    /\ alertas_ativos = SemAlertas
    /\ stats = StatsZero
    /\ ultimo = UltimoVazio
    /\ disparo = [m \in MOEDAS |-> {}]
    /\ seguidos = [m \in MOEDAS |-> 0]
    /\ resetou = [m \in MOEDAS |-> FALSE]
    /\ falhou = [m \in MOEDAS |-> FALSE]
    /\ reinicio = ReinicioVazio
    /\ det = DetVazio
    /\ ma = MaVazio
    /\ ForaDoMonitor

Next == \E moeda \in MOEDAS : verificar_cruzamento(moeda)

Spec == Init /\ [][Next]_vars

-----------------------------------------------------------------------------
(* Claims about the detection cycle, stated on the record of the last cycle *)

UltimaChave == ChaveDe(ultimo.moeda)
UltimoAtual == ultimo.entrada.dados[2]
HouveCiclo == ultimo.moeda \in MOEDAS

\* the principal is within the min-strength limits of reference r
DentroDoLimite(linha, r) ==
    /\ linha[ma_principal] * ForcaDen <= linha[r] * (ForcaDen + ForcaNum)
    /\ linha[ma_principal] * ForcaDen >= linha[r] * (ForcaDen - ForcaNum)

\* C1: after a cycle fired for a key and recorded the alert, every following
\* cycle for that key with the same, still-strong input returns no result and
\* sends nothing, and the alert stays recorded, however often it is repeated.
C1_Supressao ==
    (HouveCiclo /\ ultimo.repetida) =>
        /\ ultimo.resultado = {}
        /\ ~ultimo.tentou_envio
        /\ UltimaChave \in DOMAIN alertas_ativos
        /\ ForcaAlta(UltimoAtual) \/ ForcaBaixa(UltimoAtual)

\* the second repeated cycle after a fire
C1_Witness ==
    /\ HouveCiclo /\ ultimo.repetida
    /\ seguidos[ultimo.moeda] >= 2
    /\ ultimo.resultado = {}
    /\ mas_referencia = <<"MA_25", "MA_99">>

\* C2 (as claimed): with an active alert, a cycle that sees the principal
\* beyond the limit of every reference keeps the alert and fires nothing, and a
\* cycle that sees it within the limits of at least one reference removes the
\* alert.
C2_DecaimentoTodas ==
    (HouveCiclo /\ ultimo.ativo_antes /\ ultimo.det.valido) =>
        /\ (\A r \in Refs : ~DentroDoLimite(UltimoAtual, r)) =>
               (UltimaChave \in DOMAIN alertas_ativos /\ ultimo.resultado = {})
        /\ (\E r \in Refs : DentroDoLimite(UltimoAtual, r)) =>
               (ultimo.removeu /\ UltimaChave \notin DOMAIN alertas_ativos)

\* C3: with an active alert, a cycle that sees the principal within the limits
\* of every reference removes the alert, and the next cycle for that key that
\* classifies UP or DOWN fires a new event and records it.
C3_RefogoAposDecaimento ==
    HouveCiclo =>
        /\ (ultimo.ativo_antes /\ ultimo.det.valido
              /\ \A r \in Refs : DentroDoLimite(UltimoAtual, r)) =>
               (ultimo.removeu /\ UltimaChave \notin DOMAIN alertas_ativos)
        /\ (ultimo.apos_reset /\ (ultimo.det.alta \/ ultimo.det.baixa)) =>
               (ultimo.resultado # {} /\ UltimaChave \in DOMAIN alertas_ativos)

\* a fire in the cycle right after the one that removed the alert
C3_Witness ==
    /\ HouveCiclo /\ ultimo.apos_reset
    /\ ultimo.det.alta
    /\ ultimo.resultado # {}
    /\ mas_referencia = <<"MA_25", "MA_99">>

\* C8: a cycle whose classification is NONE fires nothing; a cycle whose
\* classification is UP or DOWN and whose key had no active alert fires.
C8_DecisaoChaveNova ==
    HouveCiclo =>
        /\ ~(ultimo.det.alta \/ ultimo.det.baixa) =>
               (ultimo.resultado = {} /\ ~ultimo.tentou_envio)
        /\ ((ultimo.det.alta \/ ultimo.det.baixa) /\ ~ultimo.ativo_antes) =>
               /\ ultimo.resultado # {}
               /\ UltimaChave \in DOMAIN alertas_ativos

\* a DOWN classification on a key with no alert, fired
C8_Witness ==
    /\ HouveCiclo /\ ~ultimo.ativo_antes
    /\ ultimo.det.baixa
    /\ ultimo.resultado # {}

\* C11: when a cycle fires and the call of the notifier returns failure or
\* raises, the alert is recorded all the same; the following cycles for that
\* key with the same, still-strong input return no result and do not call the
\* notifier again, and the alert stays recorded.
C11_FalhaDeEnvio ==
    HouveCiclo =>
        /\ (ultimo.resultado # {} /\ ultimo.envio \in {"falha", "excecao"}) =>
               /\ UltimaChave \in DOMAIN alertas_ativos
               /\ falhou[ultimo.moeda]
        /\ (ultimo.repetida /\ falhou[ultimo.moeda]) =>
               /\ ultimo.resultado = {}
               /\ ~ultimo.tentou_envio /\ ultimo.envio = "nenhum"
               /\ UltimaChave \in DOMAIN alertas_ativos

\* a repeated cycle after a fire whose delivery failed
C11_Witness ==
    /\ HouveCiclo /\ ultimo.repetida
    /\ telegram
    /\ falhou[ultimo.moeda]
    /\ ultimo.resultado = {} /\ ~ultimo.tentou_envio

\* C20: in every cycle for a key, a result is returned iff an alert for that
\* key is inserted by that cycle; the direction recorded is the direction of
\* the result; the alerts of the other keys are untouched; a cycle that
\* returns nothing inserts nothing.
C20_DisparoERegistro ==
    [][ LET k == ChaveDe(ultimo'.moeda)
            inseriu == /\ k \in DOMAIN alertas_ativos'
                       /\ k \notin DOMAIN alertas_ativos \/ ultimo'.removeu
        IN  /\ (ultimo'.resultado # {}) <=> inseriu
            /\ Cardinality(ultimo'.resultado) <= 1
            /\ \A r \in ultimo'.resultado :
                 /\ r.moeda = ultimo'.moeda
                 /\ r.cruzamento_alta <=> alertas_ativos'[k].tipo = "alta"
                 /\ r.cruzamento_baixa <=> alertas_ativos'[k].tipo = "baixa"
            /\ \A c \in (DOMAIN alertas_ativos \cup DOMAIN alertas_ativos') \ {k} :
                 /\ c \in DOMAIN alertas_ativos /\ c \in DOMAIN alertas_ativos'
                 /\ alertas_ativos'[c] = alertas_ativos[c]
      ]_vars

\* a DOWN result with the alert of the other key in place
C20_Witness ==
    /\ HouveCiclo
    /\ \E r \in ultimo.resultado : r.cruzamento_baixa
    /\ UltimaChave \in DOMAIN alertas_ativos
    /\ alertas_ativos[UltimaChave].tipo = "baixa"
    /\ Cardinality(DOMAIN alertas_ativos) = 2

\* the input makes the cycle return before detection has an answer: the fetch
\* failed, calcular_medias returned None, or a required MA is absent or NaN
EntradaSaltada(entrada) ==
    \/ entrada.fetch = "falha"
    \/ Len(entrada.dados) < 2
    \/ FaltaMA(entrada.dados[1], entrada.dados[2])

\* C21: a cycle whose fetch failed, whose averages could not be computed, or
\* whose rows lack a required MA returns no result, calls no notifier and
\* leaves alertas_ativos as it was, an active alert of its key included.
C21_SaltoSemEfeito ==
    [][ EntradaSaltada(ultimo'.entrada) =>
          /\ ultimo'.resultado = {}
          /\ ~ultimo'.tentou_envio /\ ultimo'.envio = "nenhum"
          /\ ~ultimo'.removeu
          /\ alertas_ativos' = alertas_ativos
          /\ stats'.alertas_enviados = stats.alertas_enviados
      ]_vars

\* a cycle with NaN rows on a key whose alert is active, the alert kept
C21_Witness ==
    /\ HouveCiclo
    /\ ultimo.entrada.fetch = "ok" /\ Len(ultimo.entrada.dados) = 2
    /\ FaltaMA(ultimo.entrada.dados[1], ultimo.entrada.dados[2])
    /\ ultimo.ativo_antes
    /\ UltimaChave \in DOMAIN alertas_ativos
    /\ ultimo.resultado = {}

\* C25: with an active alert for the key and the principal beyond the limit
\* of at least one reference, the cycle fires nothing whatever the
\* classification, a crossover of the other direction included, and the
\* direction recorded stays as it was.
C25_ReversaoSuprimida ==
    [][ LET k == ChaveDe(ultimo'.moeda)
            atual == ultimo'.entrada.dados[2]
        IN  (k \in DOMAIN alertas_ativos /\ ultimo'.det.valido
               /\ \E r \in Refs : ~DentroDoLimite(atual, r)) =>
              /\ ultimo'.resultado = {}
              /\ ~ultimo'.tentou_envio
              /\ k \in DOMAIN alertas_ativos'
              /\ alertas_ativos'[k] = alertas_ativos[k]
      ]_vars

\* a DOWN classification on a key whose recorded alert is UP, suppressed
C25_Witness ==
    /\ HouveCiclo /\ ultimo.ativo_antes
    /\ ultimo.det.baixa
    /\ ultimo.resultado = {}
    /\ UltimaChave \in DOMAIN alertas_ativos
    /\ alertas_ativos[UltimaChave].tipo = "alta"

\* C26: a cycle that removes the active alert of its key classifies NONE and
\* returns no result; an event for the key fires in a later cycle at the
\* earliest.
C26_ResetSemDisparo ==
    (HouveCiclo /\ ultimo.removeu) =>
        /\ ~ultimo.det.alta /\ ~ultimo.det.baixa
        /\ ultimo.resultado = {}
        /\ ~ultimo.tentou_envio
        /\ UltimaChave \notin DOMAIN alertas_ativos

\* the alert removed by a cycle after a previous bar below the references
C26_Witness ==
    /\ HouveCiclo /\ ultimo.removeu
    /\ ultimo.ativo_antes
    /\ ultimo.entrada.dados[1][ma_principal] = 97
    /\ UltimaChave \notin DOMAIN alertas_ativos

-----------------------------------------------------------------------------
(* SpecTipo: lines 299-357 of verificar_cruzamento as a function of the    *)
(* pair of flags handed to them.  detectar_cruzamento never returns both   *)
(* flags (C7), so here det.out is drawn from every pair of booleans and     *)
(* det.dados from the rows of the cycle, and the rest of the cycle is       *)
(* applied to them.                                                         *)

ParesDeFlags ==
    { [valido |-> TRUE, alta |-> a, baixa |-> b] : a \in BOOLEAN, b \in BOOLEAN }

AlertasIniciais ==
    {SemAlertas} \cup
    { Com(SemAlertas, ChaveDe("BTCUSDT"), [tipo |-> t]) : t \in {"alta", "baixa"} }

InitTipo ==
    /\ ma_principal = ESTRATEGIA_ATUAL.ma_principal
    /\ mas_referencia = ESTRATEGIA_ATUAL.mas_referencia
    /\ telegram \in BOOLEAN
    /\ alertas_ativos \in AlertasIniciais
    /\ stats = StatsZero
    /\ ultimo = UltimoVazio
    /\ disparo = [m \in MOEDAS |-> {}]
    /\ seguidos = [m \in MOEDAS |-> 0]
    /\ resetou = [m \in MOEDAS |-> FALSE]
    /\ falhou = [m \in MOEDAS |-> FALSE]
    /\ reinicio = ReinicioVazio
    /\ ma = MaVazio
    /\ ForaDoMonitor
    /\ \E a \in PrincipalAnterior, p \in PrincipalAtual, d \in ParesDeFlags :
         det = [fase |-> "saida",
                dados |-> <<LinhaDe(mas_referencia, a), LinhaDe(mas_referencia, p)>>,
                out |-> d]

\* lines 299-357 for moeda on the flags det.out
DecidirAlerta(moeda) ==
    /\ det.fase = "saida"
    /\ \E entrada \in {[fetch |-> "ok", dados |-> det.dados]} :
       \E ativos1 \in {alertas_apos_reset(det.out, alertas_ativos, ChaveDe(moeda),
                                          entrada)} :
       \E alerta \in {deve_alertar(det.out, ativos1, ChaveDe(moeda))} :
       \E envio \in (IF alerta /\ telegram THEN Envios ELSE {"nenhum"}) :
           Decide(moeda, entrada, det.out, ativos1, alerta, envio)
    /\ det' = [det EXCEPT !.fase = "decidido"]
    /\ UNCHANGED <<estrategia, telegram, ma, cfg, busca, laco, tick, fios>>

NextTipo == \E moeda \in MOEDAS : DecidirAlerta(moeda)

SpecTipo == InitTipo /\ [][NextTipo]_vars

\* C23: when the flags handed to the alert block are both set and the cycle
\* fires, the alert recorded is typed 'alta', the result shown is typed ALTA,
\* and the message of the notifier is rendered as ALTA.
C23_Desempate ==
    (det.fase = "decidido" /\ det.out.alta /\ det.out.baixa) =>
        /\ ~ultimo.ativo_antes \/ ultimo.removeu => ultimo.resultado # {}
        /\ \A r \in ultimo.resultado :
             /\ r.cruzamento_alta
             /\ alertas_ativos[UltimaChave].tipo = "alta"
             /\ tipo_da_mensagem(r) = "ALTA"
             /\ ultimo.tentou_envio => ultimo.mensagem = "ALTA"

\* both flags set, the event fired and the notifier called
C23_Witness ==
    /\ det.fase = "decidido" /\ det.out.alta /\ det.out.baixa
    /\ ultimo.resultado # {}
    /\ ultimo.tentou_envio
    /\ ultimo.mensagem = "ALTA"
    /\ alertas_ativos[UltimaChave].tipo = "alta"

-----------------------------------------------------------------------------
(* SpecReinicio: detection cycles across the replacement of the monitor by *)
(* a new instance (main.py 126, or a new process).  reinicio keeps, of the  *)
(* instance replaced, the symbols that had an active alert and the number   *)
(* of cycles run, and the symbols the new instance has not yet cycled.      *)

\* Variant of the constructor: the alerts of the instance before are kept
alertas_ao_criar_persistidos(anteriores) == anteriores

\* monitor.py 36: self.alertas_ativos = {}, whatever the instance before held
alertas_ao_criar(anteriores) == SemAlertas

CiclosFeitos == reinicio.ciclos_antes + stats.requests_ok + stats.requests_error

\* MonitorBinanceFutures() (monitor.py 33-69) replacing a running instance
Reiniciar ==
    /\ reinicio.vezes < MaxReinicios
    /\ HouveCiclo
    /\ alertas_ativos' = alertas_ao_criar(alertas_ativos)
    /\ stats' = StatsZero
    /\ ultimo' = UltimoVazio
    /\ disparo' = [m \in MOEDAS |-> {}]
    /\ seguidos' = [m \in MOEDAS |-> 0]
    /\ resetou' = [m \in MOEDAS |-> FALSE]
    /\ falhou' = [m \in MOEDAS |-> FALSE]
    /\ reinicio' = [vezes |-> reinicio.vezes + 1,
                    ciclos_antes |-> CiclosFeitos,
                    tinha_alerta |->
                        { m \in MOEDAS : ChaveDe(m) \in DOMAIN alertas_ativos },
                    pendentes |-> MOEDAS]
    /\ UNCHANGED <<estrategia, telegram, det, ma, cfg, busca, laco, tick, fios>>

\* a detection cycle of the current instance, MaxCiclos cycles over all
\* instances
CicloDaInstancia ==
    /\ CiclosFeitos < MaxCiclos
    /\ \E moeda \in MOEDAS : verificar_cruzamento(moeda)

NextReinicio == CicloDaInstancia \/ Reiniciar

SpecReinicio == Init /\ [][NextReinicio]_vars

\* C18: a new monitor instance starts with no active alert; when the instance
\* before had an alert for a key, the first cycle of the new instance for that
\* key that classifies UP or DOWN fires and records the alert, and the cycles
\* that follow with the same input fire nothing.
C18_RefogoAposReinicio ==
    reinicio.vezes > 0 =>
        /\ ~HouveCiclo => alertas_ativos = SemAlertas
        /\ (HouveCiclo /\ ultimo.pendente
              /\ ultimo.moeda \in reinicio.tinha_alerta
              /\ (ultimo.det.alta \/ ultimo.det.baixa)) =>
               /\ ultimo.resultado # {}
               /\ UltimaChave \in DOMAIN alertas_ativos
        /\ (HouveCiclo /\ ultimo.repetida) =>
               /\ ultimo.resultado = {}
               /\ ~ultimo.tentou_envio
               /\ UltimaChave \in DOMAIN alertas_ativos

\* after the restart the key that had an alert has fired again, and the
\* cycle that repeats the input is suppressed
C18_Witness ==
    /\ reinicio.vezes > 0
    /\ HouveCiclo /\ ultimo.repetida
    /\ ultimo.moeda \in reinicio.tinha_alerta
    /\ ultimo.resultado = {}
    /\ UltimaChave \in DOMAIN alertas_ativos

-----------------------------------------------------------------------------
(* SpecMA: calcular_medias (monitor.py 175-203)                            *)
(*                                                                         *)
(* PERIODOS_MA is modelled by its set of windows, df by its closes.  A     *)
(* mean is the exact fraction [num, den]; den = 0 is NaN.  The windows of  *)
(* the catalogue start at 5, so every window spans at least two candles.   *)

SemMedia == [num |-> 0, den |-> 0]

\* max(PERIODOS_MA.values())
max_periodo(periodos) == CHOOSE w \in periodos : \A v \in periodos : v <= w

\* the running window sum of rolling(periodo): add the candle that enters,
\* drop the one that leaves
RECURSIVE rolling_soma(_, _, _)
rolling_soma(closes, periodo, i) ==
    IF i = 0 THEN 0
    ELSE rolling_soma(closes, periodo, i - 1) + closes[i]
           - (IF i > periodo THEN closes[i - periodo] ELSE 0)

\* Variant of the rolling mean: the window ends one candle early
rolling_mean_deslocada(closes, periodo, i) ==
    IF i <= periodo THEN SemMedia
    ELSE [num |-> rolling_soma(closes, periodo, i - 1), den |-> periodo]

\* Variant of the rolling mean: min_periods=1, the mean of the candles there
\* are
rolling_mean_parcial(closes, periodo, i) ==
    [num |-> rolling_soma(closes, periodo, i),
     den |-> IF i < periodo THEN i ELSE periodo]

\* df['close'].rolling(periodo).mean() at candle i (1-based): NaN until the
\* window is full
rolling_mean(closes, periodo, i) ==
    IF i < periodo THEN SemMedia
    ELSE [num |-> rolling_soma(closes, periodo, i), den |-> periodo]

\* df.iloc[-2:] as the positions it keeps
ultimas_posicoes(n) == IF n >= 2 THEN <<n - 1, n>> ELSE IF n = 1 THEN <<1>> ELSE <<>>

\* the rows of dados_recentes: position and the mean of every window
linhas_recentes(closes, periodos) ==
    LET pos == ultimas_posicoes(Len(closes))
    IN  [j \in DOMAIN pos |->
            [posicao |-> pos[j],
             mas |-> [w \in periodos |-> rolling_mean(closes, w, pos[j])]]]

\* lines 193-196: some MA of the kept rows is NaN
tem_nan(linhas, periodos) ==
    \E w \in periodos : \E j \in DOMAIN linhas : linhas[j].mas[w].den = 0

\* Variant of calcular_medias: the rows returned without the length test and
\* without the NaN test
calcular_medias_sem_validacao(closes, periodos) == linhas_recentes(closes, periodos)

\* None is <<>>
calcular_medias(closes, periodos) ==
    IF Len(closes) < max_periodo(periodos) THEN <<>>
    ELSE IF \E w \in periodos : Len(closes) < w THEN <<>>
    ELSE LET dados_recentes == linhas_recentes(closes, periodos)
         IN  IF tem_nan(dados_recentes, periodos) THEN <<>> ELSE dados_recentes

\* bounded inputs, plus the configured windows on 50 and on 100 candles
\* (limit_candles = 100)
SeriesAte(n) == UNION { [1..k -> 1..MaxClose] : k \in 0..n }
ConjuntosDePeriodos == (SUBSET (2..MaxPeriodo)) \ {{}}
PeriodosConfigurados == {7, 25, 99}
Candles50 == [i \in 1..50 |-> 100]
Candles100 == [i \in 1..100 |-> 100 + (i % 3)]
Candles100Constantes == [i \in 1..100 |-> 100]
Candles99 == [i \in 1..99 |-> 100 + (i % 3)]

EntradasMA ==
    { [closes |-> c, periodos |-> ps] :
        c \in SeriesAte(MaxLen), ps \in ConjuntosDePeriodos }
    \cup { [closes |-> c, periodos |-> PeriodosConfigurados] :
             c \in {Candles50, Candles99, Candles100, Candles100Constantes} }

InitMA ==
    /\ ma_principal = ESTRATEGIA_ATUAL.ma_principal
    /\ mas_referencia = ESTRATEGIA_ATUAL.mas_referencia
    /\ MonitorParado
    /\ det = DetVazio
    /\ ForaDoMonitor
    /\ \E e \in EntradasMA :
         ma = [fase |-> "entrada", periodos |-> e.periodos, closes |-> e.closes,
               out |-> <<>>]

Calcular ==
    /\ ma.fase = "entrada"
    /\ ma' = [ma EXCEPT !.fase = "saida",
                        !.out = calcular_medias(ma.closes, ma.periodos)]
    /\ UNCHANGED <<estrategia, monitor, det, cfg, busca, laco, tick, fios>>

NextMA == Calcular

SpecMA == InitMA /\ [][NextMA]_vars

\* the sum of the closes at a set of positions
RECURSIVE SomaEm(_, _)
SomaEm(closes, posicoes) ==
    IF posicoes = {} THEN 0
    ELSE LET k == CHOOSE x \in posicoes : TRUE
         IN  closes[k] + SomaEm(closes, posicoes \ {k})

\* C9: calcular_medias returns no result whenever the series is shorter than
\* the largest configured window (Scenario C: 50 candles with MA_99).
C9_DadosInsuficientes ==
    (ma.fase = "saida" /\ \E w \in ma.periodos : Len(ma.closes) < w) =>
        ma.out = <<>>

C9_Witness ==
    /\ ma.fase = "saida"
    /\ ma.closes = Candles50
    /\ ma.periodos = PeriodosConfigurados
    /\ ma.out = <<>>

\* C10: when calcular_medias succeeds it returns the two last positions, and
\* for every window w and each of them, i, the value is the arithmetic mean of
\* the closes at i-w+1..i; a constant series of value v yields v everywhere.
C10_ValorDaMedia ==
    (ma.fase = "saida" /\ ma.out # <<>>) =>
        LET n == Len(ma.closes) IN
        /\ Len(ma.out) = 2
        /\ \A j \in 1..2 : \A w \in ma.periodos :
             LET i == n - 2 + j
                 m == ma.out[j].mas[w]
             IN  /\ ma.out[j].posicao = i
                 /\ i - w + 1 >= 1
                 /\ m.den # 0
                 /\ m.num * w = m.den * SomaEm(ma.closes, (i - w + 1)..i)
                 /\ (\A k \in 1..n : ma.closes[k] = ma.closes[1]) =>
                        m.num = ma.closes[1] * m.den

\* the configured windows on 100 candles that are not constant
C10_Witness ==
    /\ ma.fase = "saida"
    /\ ma.closes = Candles100
    /\ ma.periodos = PeriodosConfigurados
    /\ Len(ma.out) = 2

\* C27: a series exactly as long as the largest window passes the length
\* tests of calcular_medias and still yields no result, because the largest
\* window has no value at the previous bar; there is a result exactly when
\* the series has at least one candle more than the largest window.
C27_UmaBarraAMais ==
    ma.fase = "saida" =>
        LET n == Len(ma.closes)
            w == max_periodo(ma.periodos)
        IN  /\ n = w =>
                 /\ \A v \in ma.periodos : n >= v
                 /\ rolling_mean(ma.closes, w, n - 1).den = 0
                 /\ rolling_mean(ma.closes, w, n).den # 0
                 /\ ma.out = <<>>
            /\ ma.out # <<>> <=> n >= w + 1

\* 99 candles with the configured windows 7, 25 and 99
C27_Witness ==
    /\ ma.fase = "saida"
    /\ ma.closes = Candles99
    /\ ma.periodos = PeriodosConfigurados
    /\ Len(ma.closes) = max_periodo(ma.periodos)
    /\ ma.out = <<>>

-----------------------------------------------------------------------------
(* SpecConfig: validar_configuracao (config.py 266-301)                    *)

\* MAS_DISPONIVEIS, name -> window
MAS_DISPONIVEIS ==
    [n \in {"MA_5", "MA_7", "MA_9", "MA_12", "MA_20", "MA_25", "MA_30", "MA_50",
            "MA_99", "MA_100", "MA_150", "MA_200"} |->
        CASE n = "MA_5" -> 5 [] n = "MA_7" -> 7 [] n = "MA_9" -> 9
          [] n = "MA_12" -> 12 [] n = "MA_20" -> 20 [] n = "MA_25" -> 25
          [] n = "MA_30" -> 30 [] n = "MA_50" -> 50 [] n = "MA_99" -> 99
          [] n = "MA_100" -> 100 [] n = "MA_150" -> 150 [] n = "MA_200" -> 200]

\* the catalogue edited to hold a second name for the window 7
CatalogoComSinonimo ==
    [n \in DOMAIN MAS_DISPONIVEIS \cup {"MA_RAPIDA"} |->
        IF n = "MA_RAPIDA" THEN 7 ELSE MAS_DISPONIVEIS[n]]

Catalogos == {MAS_DISPONIVEIS, CatalogoComSinonimo}

\* names a strategy may carry; "MA_8" is in no catalogue
NomesDeMA == {"MA_7", "MA_25", "MA_99", "MA_RAPIDA", "MA_8"}
ListasDeReferencia == UNION { [1..k -> NomesDeMA] : k \in 0..MaxRefs }

\* Variant of the validation: the windows are not compared
validar_configuracao_sem_periodos(catalogo, principal, refs) ==
    IF principal \notin DOMAIN catalogo
    THEN [valida |-> FALSE, erro |-> "principal"]
    ELSE IF \E i \in 1..Len(refs) : refs[i] \notin DOMAIN catalogo
    THEN [valida |-> FALSE, erro |-> "referencia"]
    ELSE IF Len(refs) = 0
    THEN [valida |-> FALSE, erro |-> "sem_referencia"]
    ELSE [valida |-> TRUE, erro |-> "valida"]

\* the four checks in the order of the code, each returning at once
validar_configuracao(catalogo, principal, refs) ==
    IF principal \notin DOMAIN catalogo
    THEN [valida |-> FALSE, erro |-> "principal"]
    ELSE IF \E i \in 1..Len(refs) : refs[i] \notin DOMAIN catalogo
    THEN [valida |-> FALSE, erro |-> "referencia"]
    ELSE IF Len(refs) = 0
    THEN [valida |-> FALSE, erro |-> "sem_referencia"]
    ELSE IF \E i \in 1..Len(refs) : catalogo[refs[i]] = catalogo[principal]
    THEN [valida |-> FALSE, erro |-> "mesmo_periodo"]
    ELSE [valida |-> TRUE, erro |-> "valida"]

InitConfig ==
    /\ ma_principal = ESTRATEGIA_ATUAL.ma_principal
    /\ mas_referencia = ESTRATEGIA_ATUAL.mas_referencia
    /\ MonitorParado
    /\ det = DetVazio
    /\ ma = MaVazio
    /\ busca = BuscaVazia
    /\ laco = LacoVazio
    /\ tick = TickVazio
    /\ fios = FiosVazio
    /\ \E c \in Catalogos, p \in NomesDeMA, rs \in ListasDeReferencia :
         cfg = [fase |-> "entrada", catalogo |-> c, principal |-> p, refs |-> rs,
                out |-> ResultadoVazio]

\* line 304: _is_valid, _error_msg = validar_configuracao()
Validar ==
    /\ cfg.fase = "entrada"
    /\ cfg' = [cfg EXCEPT !.fase = "saida",
                          !.out = validar_configuracao(cfg.catalogo, cfg.principal,
                                                       cfg.refs)]
    /\ UNCHANGED <<estrategia, monitor, det, ma, busca, laco, tick, fios>>

NextConfig == Validar

SpecConfig == InitConfig /\ [][NextConfig]_vars

\* C12: the validation answers invalid exactly when the principal is not in
\* the catalogue, or the reference list is empty, or some reference is not in
\* the catalogue, or some reference has the window of the principal; and
\* valid in every other case.
C12_Validacao ==
    cfg.fase = "saida" =>
        LET cat == cfg.catalogo
            invalida ==
                \/ cfg.principal \notin DOMAIN cat
                \/ cfg.refs = <<>>
                \/ \E r \in Range(cfg.refs) : r \notin DOMAIN cat
                \/ /\ cfg.principal \in DOMAIN cat
                   /\ \E r \in Range(cfg.refs) :
                        r \in DOMAIN cat /\ cat[r] = cat[cfg.principal]
        IN  cfg.out.valida <=> ~invalida

\* a reference under another name with the window of the principal, refused
C12_Witness ==
    /\ cfg.fase = "saida"
    /\ cfg.principal = "MA_7"
    /\ cfg.refs = <<"MA_25", "MA_RAPIDA">>
    /\ cfg.catalogo = CatalogoComSinonimo
    /\ ~cfg.out.valida

-----------------------------------------------------------------------------
(* SpecLaco: the process from the import of config.py through main() and   *)
(* the loop of iniciar_monitoramento (main.py 105-145, monitor.py 442-494). *)
(* A tick is one call of executar_verificacao, taken whole; laco.pc is the  *)
(* position of the main thread.                                             *)

\* max_tentativas (monitor.py 458)
max_tentativas == 5

\* ESTRATEGIA_ATUAL as shipped and as edited into two invalid strategies
ConfigsDeArranque ==
    { [principal |-> "MA_7", refs |-> <<"MA_25", "MA_99">>],
      [principal |-> "MA_7", refs |-> <<>>],
      [principal |-> "MA_7", refs |-> <<"MA_7">>] }

\* What a pass through the loop body (lines 461-476) can meet: nothing; an
\* exception inside executar_verificacao, caught by its own handler (lines
\* 438-440); an exception that reaches the handler of line 478 before the
\* counter is reset at line 469; one that reaches it after the reset.
ResultadosDeTick == {"ok", "excecao_no_ciclo", "excecao_antes", "excecao_na_espera"}

InitLaco ==
    /\ ma_principal = ESTRATEGIA_ATUAL.ma_principal
    /\ mas_referencia = ESTRATEGIA_ATUAL.mas_referencia
    /\ MonitorParado
    /\ det = DetVazio
    /\ ma = MaVazio
    /\ busca = BuscaVazia
    /\ tick = TickVazio
    /\ fios = FiosVazio
    /\ \E c \in ConfigsDeArranque :
         cfg = [fase |-> "entrada", catalogo |-> MAS_DISPONIVEIS,
                principal |-> c.principal, refs |-> c.refs, out |-> ResultadoVazio]
    /\ laco = [LacoVazio EXCEPT !.pc = "import"]

ForaDoLaco == <<estrategia, monitor, det, ma, busca, tick, fios>>

\* config.py 303-312: the validation runs at import and its verdict is printed
Importar ==
    /\ laco.pc = "import"
    /\ cfg' = [cfg EXCEPT !.fase = "saida",
                          !.out = validar_configuracao(cfg.catalogo, cfg.principal,
                                                       cfg.refs)]
    /\ laco' = [laco EXCEPT !.pc = "main"]
    /\ UNCHANGED ForaDoLaco

\* main.py 122-127 with monitor.py 33-69: while True, a new monitor, whose
\* constructor sets running and installs the handler; then
\* iniciar_monitoramento up to the loop (monitor.py 457-458)
CriarMonitor ==
    /\ laco.pc = "main"
    /\ laco.instancias < MaxInstancias
    /\ laco' = [laco EXCEPT !.pc = "laco", !.running = TRUE,
                            !.tentativas_erro = 0, !.instancias = @ + 1]
    /\ UNCHANGED <<cfg, ForaDoLaco>>

\* monitor.py 461-466: while self.running, into executar_verificacao
IniciarTick ==
    /\ laco.pc = "laco"
    /\ laco.running
    /\ laco.ticks < MaxTicks
    /\ laco' = [laco EXCEPT !.pc = "tick", !.ticks = @ + 1,
                            !.erros_antes = laco.tentativas_erro,
                            !.ticks_apos_sinal =
                                IF laco.sinais > 0 THEN @ + 1 ELSE @,
                            !.ticks_apos_limite =
                                IF laco.falhas_seguidas >= max_tentativas
                                THEN @ + 1 ELSE @]
    /\ UNCHANGED <<cfg, ForaDoLaco>>

\* tentativas_erro after the pass: reset at line 469 once executar_verificacao
\* has returned, incremented at line 479 by what reaches the handler
tentativas_apos(tentativas, resultado) ==
    CASE resultado \in {"ok", "excecao_no_ciclo"} -> 0
      [] resultado = "excecao_antes" -> tentativas + 1
      [] resultado = "excecao_na_espera" -> 1

\* monitor.py 466-490: the rest of the pass
ExecutarTick ==
    /\ laco.pc = "tick"
    /\ \E resultado \in ResultadosDeTick :
       \E t \in {tentativas_apos(laco.tentativas_erro, resultado)} :
         laco' = [laco EXCEPT
                    !.ultimo_tick = resultado,
                    !.tentativas_erro = t,
                    !.falhas_seguidas =
                        IF resultado = "ok" THEN 0
                        ELSE IF @ < max_tentativas THEN @ + 1 ELSE @,
                    !.pc = IF resultado \in {"ok", "excecao_no_ciclo"}
                           THEN "espera"
                           ELSE IF t >= max_tentativas THEN "resumo"
                           ELSE "espera_erro"]
    /\ UNCHANGED <<cfg, ForaDoLaco>>

\* lines 474-476 and 489-490: the sleep ends and the loop tests running again
Dormir ==
    /\ laco.pc \in {"espera", "espera_erro"}
    /\ laco' = [laco EXCEPT !.pc = "laco"]
    /\ UNCHANGED <<cfg, ForaDoLaco>>

\* line 461: running is False and the loop is left
SairDoLaco ==
    /\ laco.pc = "laco"
    /\ ~laco.running
    /\ laco' = [laco EXCEPT !.pc = "resumo"]
    /\ UNCHANGED <<cfg, ForaDoLaco>>

\* lines 493-494, then main.py 123: the final summary, the return to main(),
\* whose while True has no break on this path
Resumo ==
    /\ laco.pc = "resumo"
    /\ laco' = [laco EXCEPT !.pc = "main", !.resumos = @ + 1]
    /\ UNCHANGED <<cfg, ForaDoLaco>>

\* _signal_handler (monitor.py 71-74), installed by every constructor for
\* SIGTERM and SIGINT: it sets running of its instance to False
Sinal ==
    /\ laco.instancias > 0
    /\ laco.pc # "saiu"
    /\ laco.sinais < MaxSinais
    /\ laco' = [laco EXCEPT !.running = FALSE, !.sinais = @ + 1]
    /\ UNCHANGED <<cfg, ForaDoLaco>>

\* a signal before the first constructor has run meets the default
\* disposition and ends the process (main.py 105-125)
SinalAntesDoMonitor ==
    /\ laco.instancias = 0
    /\ laco.pc \in {"import", "main"}
    /\ laco' = [laco EXCEPT !.pc = "saiu"]
    /\ UNCHANGED <<cfg, ForaDoLaco>>

NextLaco ==
    \/ Importar
    \/ CriarMonitor
    \/ IniciarTick
    \/ ExecutarTick
    \/ Dormir
    \/ SairDoLaco
    \/ Resumo
    \/ Sinal
    \/ SinalAntesDoMonitor

SpecLaco == InitLaco /\ [][NextLaco]_vars

\* C13 (as claimed): when the strategy configuration is invalid at startup,
\* no tick is ever executed.
C13_ConfigInvalidaFatal ==
    (cfg.fase = "saida" /\ ~cfg.out.valida) =>
        (laco.ticks = 0 /\ laco.pc # "tick")

\* C14 (as claimed): every tick in which an exception occurs anywhere in the
\* cycle increments the consecutive-failure counter, and once five
\* consecutive ticks have failed no further tick is started.
C14_FalhasConsecutivas ==
    /\ (laco.pc \in {"espera", "espera_erro", "resumo"}
          /\ laco.ultimo_tick \in ResultadosDeTick \ {"ok"}) =>
           laco.tentativas_erro = laco.erros_antes + 1
    /\ laco.ticks_apos_limite = 0

\* C15 (as claimed): no tick is started after a SIGTERM or SIGINT has been
\* received.
C15_SemTickAposSinal ==
    laco.sinais > 0 => laco.ticks_apos_sinal = 0

-----------------------------------------------------------------------------
(* SpecTick: executar_verificacao (monitor.py 407-440) with one worker     *)
(* thread per symbol.  A worker is the pair of its tick and its symbol; it *)
(* runs verificar_cruzamento from its submission until it finishes.        *)

\* the inputs the workers meet: a failed fetch, Scenario A, and rows with the
\* principal back between the references
EntradasDoTick ==
    { [fetch |-> "falha", dados |-> <<>>],
      [fetch |-> "ok", dados |-> CenarioA],
      [fetch |-> "ok", dados |-> <<LinhaDe(<<"MA_25", "MA_99">>, 99),
                                   LinhaDe(<<"MA_25", "MA_99">>, 99)>>] }

\* lines 415-418: one future per entry of MOEDAS
submetidos(n) == { [tick |-> n, moeda |-> m] : m \in MOEDAS }

\* Variant of the exit of the with block: shutdown(wait=False)
pode_encerrar_sem_esperar(executando, n) == TRUE

\* line 413, the exit of "with ThreadPoolExecutor(...)": shutdown(wait=True)
\* returns when no worker of the pool is running, also when an exception
\* leaves the block
pode_encerrar(executando, n) == \A w \in executando : w.tick # n

InitTick ==
    /\ ma_principal = ESTRATEGIA_ATUAL.ma_principal
    /\ mas_referencia = ESTRATEGIA_ATUAL.mas_referencia
    /\ telegram \in BOOLEAN
    /\ alertas_ativos = SemAlertas
    /\ stats = StatsZero
    /\ ultimo = UltimoVazio
    /\ disparo = [m \in MOEDAS |-> {}]
    /\ seguidos = [m \in MOEDAS |-> 0]
    /\ resetou = [m \in MOEDAS |-> FALSE]
    /\ falhou = [m \in MOEDAS |-> FALSE]
    /\ reinicio = ReinicioVazio
    /\ det = DetVazio
    /\ ma = MaVazio
    /\ cfg = CfgVazio
    /\ busca = BuscaVazia
    /\ laco = LacoVazio
    /\ tick = [TickVazio EXCEPT !.fase = "fora"]
    /\ fios = FiosVazio

\* lines 409-418: the pool is created and every symbol submitted
IniciarVerificacao ==
    /\ tick.fase = "fora"
    /\ tick.n < MaxVerificacoes
    /\ tick' = [tick EXCEPT !.fase = "aguardando", !.n = @ + 1,
                            !.executando = @ \cup submetidos(tick.n + 1),
                            !.prazo = FALSE, !.atrasados = {}, !.notificou = {},
                            !.inicio = alertas_ativos]
    /\ UNCHANGED <<estrategia, monitor, det, ma, cfg, busca, laco, fios>>

\* a worker runs verificar_cruzamento to its end, whatever the main thread
\* has done meanwhile
Trabalhar ==
    \E w \in tick.executando :
        /\ Ciclo(w.moeda, EntradasDoTick)
        /\ tick' = [tick EXCEPT
                       !.executando = @ \ {w},
                       !.atrasados = IF tick.prazo /\ w.tick = tick.n
                                     THEN @ \cup {w.moeda} ELSE @,
                       !.notificou = IF ultimo'.tentou_envio
                                     THEN @ \cup {w.moeda} ELSE @]
        /\ UNCHANGED <<estrategia, telegram, det, ma, cfg, busca, laco, fios>>

\* line 423: as_completed(..., timeout=60) raises TimeoutError while futures
\* are pending; the exception leaves the for loop and the with block
ExpirarPrazo ==
    /\ tick.fase = "aguardando"
    /\ \E w \in tick.executando : w.tick = tick.n
    /\ tick' = [tick EXCEPT !.fase = "encerrando", !.prazo = TRUE,
                            !.expirados = @ + 1]
    /\ UNCHANGED <<estrategia, monitor, det, ma, cfg, busca, laco, fios>>

\* lines 423-436: every future has completed and been collected, and
\* mostrar_alertas has printed the results
ColherResultados ==
    /\ tick.fase = "aguardando"
    /\ \A w \in tick.executando : w.tick # tick.n
    /\ tick' = [tick EXCEPT !.fase = "encerrando"]
    /\ UNCHANGED <<estrategia, monitor, det, ma, cfg, busca, laco, fios>>

\* the with block is left (and lines 438-440 log the TimeoutError);
\* executar_verificacao returns
EncerrarVerificacao ==
    /\ tick.fase = "encerrando"
    /\ pode_encerrar(tick.executando, tick.n)
    /\ tick' = [tick EXCEPT !.fase = "fora"]
    /\ UNCHANGED <<estrategia, monitor, det, ma, cfg, busca, laco, fios>>

NextTick ==
    \/ IniciarVerificacao
    \/ Trabalhar
    \/ ExpirarPrazo
    \/ ColherResultados
    \/ EncerrarVerificacao

SpecTick == InitTick /\ [][NextTick]_vars

\* C16 (as claimed): a symbol whose worker had not finished when the deadline
\* of the tick expired is treated as a failed fetch: in that tick its alert
\* state is not changed and no notification is sent for it.
C16_PrazoSemEfeito ==
    \A m \in tick.atrasados :
        /\ ChaveDe(m) \in DOMAIN alertas_ativos <=> ChaveDe(m) \in DOMAIN tick.inicio
        /\ ChaveDe(m) \in DOMAIN alertas_ativos =>
               alertas_ativos[ChaveDe(m)] = tick.inicio[ChaveDe(m)]
        /\ m \notin tick.notificou

\* C17: in every reachable state at most one worker is running a detection
\* cycle for a given symbol, and every running worker belongs to the current
\* tick: a tick starts only when the workers of the tick before have all
\* finished, also when that tick's deadline had expired.
C17_UmTrabalhadorPorChave ==
    /\ \A w1 \in tick.executando : \A w2 \in tick.executando :
         w1.moeda = w2.moeda => w1 = w2
    /\ \A w \in tick.executando : w.tick = tick.n
    /\ tick.fase = "fora" => tick.executando = {}

\* the second tick with its workers running, after a tick whose deadline
\* expired
C17_Witness ==
    /\ tick.n = 2
    /\ tick.expirados >= 1
    /\ ~tick.prazo
    /\ tick.executando = submetidos(2)

-----------------------------------------------------------------------------
(* SpecFios: one call of executar_verificacao (monitor.py 407-440) with    *)
(* the worker threads at statement granularity.  The counters of           *)
(* self.stats are updated by "+= 1", a read of the entry followed by a     *)
(* write of the value read plus one; the threads hold no lock, so another  *)
(* worker may run between the read and the write.                          *)

\* What a worker meets: the outcome of buscar_dados, the rows calcular_medias
\* gives, and where an exception is raised in it.  An exception in
\* buscar_dados is caught at lines 160-168 and leads to the return of None at
\* line 173; one in calcular_medias is caught at 201-203 (None); one in
\* detectar_cruzamento is caught at 268-270 ((None, None)).
CasosDoFio ==
    { [busca |-> "ok", excecao |-> "nenhuma", dados |-> CenarioA],
      [busca |-> "ok", excecao |-> "nenhuma",
       dados |-> <<LinhaDe(<<"MA_25", "MA_99">>, 99),
                   LinhaDe(<<"MA_25", "MA_99">>, 99)>>],
      [busca |-> "falha", excecao |-> "nenhuma", dados |-> <<>>],
      [busca |-> "falha", excecao |-> "busca", dados |-> <<>>],
      [busca |-> "ok", excecao |-> "calculo", dados |-> CenarioA],
      [busca |-> "ok", excecao |-> "deteccao", dados |-> CenarioA] }

\* Variant of the worker's detection: the exceptions of calcular_medias and
\* detectar_cruzamento not turned into None
deteccao_do_fio_sem_captura(caso) ==
    deteccao([fetch |-> caso.busca, dados |-> caso.dados])

\* lines 286-297: the detection the worker obtains in its case
deteccao_do_fio(caso) ==
    IF caso.excecao \in {"calculo", "deteccao"} THEN SemDeteccao
    ELSE deteccao([fetch |-> caso.busca, dados |-> caso.dados])

\* lines 152, 171 and 347: "self.stats[k] += 1" stores the value it read plus
\* one, whatever the entry holds by then
valor_escrito(lido, corrente) == lido + 1

\* the counter a worker is updating: lines 152 and 171 in buscar_dados, line
\* 347 after enviar_alerta returned True
contador_do_fio(pc, caso) ==
    IF pc \in {"ler_enviados", "escrever_enviados"} THEN "alertas_enviados"
    ELSE IF caso.busca = "ok" THEN "requests_ok" ELSE "requests_error"

InitFios ==
    /\ ma_principal = ESTRATEGIA_ATUAL.ma_principal
    /\ mas_referencia = ESTRATEGIA_ATUAL.mas_referencia
    /\ telegram \in BOOLEAN
    /\ alertas_ativos \in AlertasIniciais
    /\ stats = StatsZero
    /\ ultimo = UltimoVazio
    /\ disparo = [m \in MOEDAS |-> {}]
    /\ seguidos = [m \in MOEDAS |-> 0]
    /\ resetou = [m \in MOEDAS |-> FALSE]
    /\ falhou = [m \in MOEDAS |-> FALSE]
    /\ reinicio = ReinicioVazio
    /\ det = DetVazio
    /\ ma = MaVazio
    /\ cfg = CfgVazio
    /\ busca = BuscaVazia
    /\ laco = LacoVazio
    /\ tick = TickVazio
    /\ fios = [principal |-> "aguardando",
               pc |-> [m \in MOEDAS |-> "buscar"],
               caso |-> [m \in MOEDAS |->
                           [busca |-> "falha", excecao |-> "nenhuma", dados |-> <<>>]],
               lido |-> [m \in MOEDAS |-> 0],
               excecao |-> [m \in MOEDAS |-> "nenhuma"],
               retorno |-> [m \in MOEDAS |-> {}],
               resultados |-> [m \in {} |-> {}],
               prazo |-> FALSE,
               entregues |-> 0,
               inicio |-> alertas_ativos,
               passo |-> "nenhum"]

ForaDosFios == <<estrategia, telegram, ultimo, disparo, seguidos, resetou,
                 falhou, reinicio, det, ma, cfg, busca, laco, tick>>

\* lines 88-150 and 160-169: the requests of buscar_dados up to the outcome
FioBuscar(m) ==
    /\ fios.pc[m] = "buscar"
    /\ \E caso \in CasosDoFio :
         fios' = [fios EXCEPT !.pc[m] = "ler_pedidos", !.caso[m] = caso,
                              !.excecao[m] = caso.excecao, !.passo = m]
    /\ UNCHANGED <<alertas_ativos, stats, ForaDosFios>>

\* the read half of "+= 1" at lines 152, 171 and 347
FioLer(m) ==
    /\ fios.pc[m] \in {"ler_pedidos", "ler_enviados"}
    /\ fios' = [fios EXCEPT
                  !.lido[m] = stats[contador_do_fio(fios.pc[m], fios.caso[m])],
                  !.pc[m] = IF fios.pc[m] = "ler_pedidos" THEN "escrever_pedidos"
                            ELSE "escrever_enviados",
                  !.passo = m]
    /\ UNCHANGED <<alertas_ativos, stats, ForaDosFios>>

\* the write half of "+= 1"; after line 152 the frame is returned and
\* verificar_cruzamento goes on, after line 171 it returns None at line 280,
\* after line 347 it returns the resultado at line 354
FioEscrever(m) ==
    /\ fios.pc[m] \in {"escrever_pedidos", "escrever_enviados"}
    /\ \E k \in {contador_do_fio(fios.pc[m], fios.caso[m])} :
         stats' = [stats EXCEPT ![k] = valor_escrito(fios.lido[m], stats[k])]
    /\ fios' = [fios EXCEPT
                  !.pc[m] = IF fios.pc[m] = "escrever_pedidos"
                               /\ fios.caso[m].busca = "ok"
                            THEN "decidir" ELSE "fim",
                  !.passo = m]
    /\ UNCHANGED <<alertas_ativos, ForaDosFios>>

\* lines 282-340 and 356-357: from the length test to the built resultado,
\* or to the return of None
FioDecidir(m) ==
    /\ fios.pc[m] = "decidir"
    /\ \E entrada \in {[fetch |-> "ok", dados |-> fios.caso[m].dados]} :
       \E d \in {deteccao_do_fio(fios.caso[m])} :
       \E ativos1 \in {alertas_apos_reset(d, alertas_ativos, ChaveDe(m), entrada)} :
       \E alerta \in {d.valido /\ deve_alertar(d, ativos1, ChaveDe(m))} :
          /\ alertas_ativos' =
               IF alerta THEN Com(ativos1, ChaveDe(m), [tipo |-> tipo_alerta(d)])
               ELSE ativos1
          /\ fios' = [fios EXCEPT
                        !.retorno[m] =
                            IF alerta THEN {resultado_de(m, d, entrada.dados[2])}
                            ELSE {},
                        !.pc[m] = IF alerta /\ telegram THEN "enviar" ELSE "fim",
                        !.passo = m]
    /\ UNCHANGED <<stats, ForaDosFios>>

\* lines 343-352: the call of enviar_alerta; it returns True, returns False
\* (with or without an exception caught at telegram_notifier.py 94-96), or
\* raises into the except of line 351
FioEnviar(m) ==
    /\ fios.pc[m] = "enviar"
    /\ \E envio \in Envios :
       \E exc \in (IF envio = "ok" THEN {FALSE}
                   ELSE IF envio = "excecao" THEN {TRUE} ELSE BOOLEAN) :
         fios' = [fios EXCEPT
                    !.pc[m] = IF envio = "ok" THEN "ler_enviados" ELSE "fim",
                    !.excecao[m] = IF exc THEN "notificador" ELSE @,
                    !.entregues = IF envio = "ok" THEN @ + 1 ELSE @,
                    !.passo = m]
    /\ UNCHANGED <<alertas_ativos, stats, ForaDosFios>>

\* lines 423-430: as_completed yields a finished future and its result is
\* appended to resultados
FioColher(m) ==
    /\ fios.principal = "aguardando"
    /\ fios.pc[m] = "fim"
    /\ m \notin DOMAIN fios.resultados
    /\ fios' = [fios EXCEPT
                  !.resultados = [x \in DOMAIN fios.resultados \cup {m} |->
                                     fios.retorno[x]],
                  !.passo = "principal"]
    /\ UNCHANGED <<alertas_ativos, stats, ForaDosFios>>

\* lines 432-435: every future was yielded, mostrar_alertas(resultados)
FioMostrar ==
    /\ fios.principal = "aguardando"
    /\ DOMAIN fios.resultados = MOEDAS
    /\ fios' = [fios EXCEPT !.principal = "mostrou", !.passo = "principal"]
    /\ UNCHANGED <<alertas_ativos, stats, ForaDosFios>>

\* line 423: as_completed(timeout=60) raises TimeoutError with futures
\* pending; the for loop and mostrar_alertas are left
FioExpirar ==
    /\ fios.principal = "aguardando"
    /\ DOMAIN fios.resultados # MOEDAS
    /\ fios' = [fios EXCEPT !.principal = "expirou", !.prazo = TRUE,
                            !.passo = "principal"]
    /\ UNCHANGED <<alertas_ativos, stats, ForaDosFios>>

\* line 413 and lines 437-439: the with block waits for the workers, the
\* except logs, executar_verificacao returns
FioEncerrar ==
    /\ fios.principal \in {"mostrou", "expirou"}
    /\ pode_encerrar({[tick |-> 1, moeda |-> m] : m \in {x \in MOEDAS : fios.pc[x] # "fim"}}, 1)
    /\ fios' = [fios EXCEPT !.principal = "fim", !.passo = "principal"]
    /\ UNCHANGED <<alertas_ativos, stats, ForaDosFios>>

NextFios ==
    \/ \E m \in MOEDAS : FioBuscar(m)
    \/ \E m \in MOEDAS : FioLer(m)
    \/ \E m \in MOEDAS : FioEscrever(m)
    \/ \E m \in MOEDAS : FioDecidir(m)
    \/ \E m \in MOEDAS : FioEnviar(m)
    \/ \E m \in MOEDAS : FioColher(m)
    \/ FioMostrar
    \/ FioExpirar
    \/ FioEncerrar

SpecFios == InitFios /\ [][NextFios]_vars

\* C28: when every worker of the tick has run to completion, requests_ok +
\* requests_error has grown by the number of symbols and alertas_enviados by
\* the number of notifications delivered (both counted from zero here).
\* Violated: two workers read the same counter before either writes it, and
\* one increment is lost.
C28_ContadoresExatos ==
    (fios.principal # "parado" /\ \A m \in MOEDAS : fios.pc[m] = "fim") =>
        /\ stats.requests_ok + stats.requests_error = Cardinality(MOEDAS)
        /\ stats.alertas_enviados = fios.entregues

\* the alert entry of a key, the empty set when the key has none
EntradaDe(ativos, chave) == IF chave \in DOMAIN ativos THEN {ativos[chave]} ELSE {}

\* the workers past lines 282-340
Decididos == { m \in MOEDAS : fios.pc[m] \in {"enviar", "ler_enviados",
                                               "escrever_enviados", "fim"} }

\* C22: under every interleaving of the workers of a tick, a step of the
\* worker of symbol M leaves the alert entry of every other key as it was
\* (and the main thread leaves all entries), the keys of alertas_ativos are
\* keys of configured symbols, and whether M's cycle fires is decided by its
\* own rows and its own entry alone.
C22_SemEstadoCruzado ==
    /\ [][\A c \in DOMAIN alertas_ativos \cup DOMAIN alertas_ativos' :
            EntradaDe(alertas_ativos', c) # EntradaDe(alertas_ativos, c)
                => c = ChaveDe(fios'.passo)]_vars
    /\ [](DOMAIN alertas_ativos \subseteq { ChaveDe(m) : m \in MOEDAS })
    /\ [](\A m \in Decididos :
            fios.retorno[m] # {} <=>
               /\ fios.caso[m].busca = "ok"
               /\ deteccao_do_fio(fios.caso[m]).alta
                     \/ deteccao_do_fio(fios.caso[m]).baixa
               /\ \/ ChaveDe(m) \notin DOMAIN fios.inicio
                  \/ ~tem_forca(fios.caso[m].dados[2]))

\* both workers ran their cycle on Scenario A in one tick: ETHUSDT fired while
\* the entry of BTCUSDT, active since before the tick, suppressed BTCUSDT
C22_Witness ==
    /\ fios.principal = "fim"
    /\ fios.retorno["ETHUSDT"] # {}
    /\ fios.caso["BTCUSDT"] = [busca |-> "ok", excecao |-> "nenhuma", dados |-> CenarioA]
    /\ fios.retorno["BTCUSDT"] = {}
    /\ ChaveDe("BTCUSDT") \in DOMAIN fios.inicio
    /\ DOMAIN alertas_ativos = { ChaveDe(m) : m \in MOEDAS }

\* the workers that returned
Terminados == { m \in MOEDAS : fios.pc[m] = "fim" }

-----------------------------------------------------------------------------
(* SpecBusca: the retry loop of buscar_dados (monitor.py 76-173) for one   *)
(* symbol in one tick.  busca.tentativa is the loop variable, busca.pedidos *)
(* counts the calls of requests.get, busca.espera adds up the sleeps.       *)

\* max_retries (monitor.py 78)
max_retries == 3

\* What one request can meet: a valid body; status 451; status 429; another
\* error status (raise_for_status); a timeout; a connection error; a body that
\* is not JSON (json() raises); a body that is empty or not a list; fewer
\* candles than the largest window; a close that is not numeric; an
\* exception in the conversion.
Respostas ==
    {"ok", "451", "429", "erro_http", "timeout", "conexao", "nao_json",
     "corpo_invalido", "poucos_candles", "nao_numerico", "erro_conversao"}

\* the failures that leave the try block through an except clause of lines
\* 156-164
PorExcecao == {"erro_http", "timeout", "conexao", "nao_json"}

\* the seconds slept after a failed attempt: lines 109-118 for the two
\* statuses, lines 166-169 after an exception, none after a plain continue
espera_apos(tentativa, resp) ==
    CASE resp = "451" -> (tentativa + 1) * 5
      [] resp = "429" -> (tentativa + 1) * 10
      [] resp \in PorExcecao ->
           IF tentativa < max_retries - 1 THEN (tentativa + 1) * 2 ELSE 0
      [] OTHER -> 0

\* Variant of the loop: a 429 is retried without using up an attempt
proxima_tentativa_sem_contar_429(tentativa, resp) ==
    IF resp = "429" THEN tentativa ELSE tentativa + 1

\* line 88: every continue and every handled exception moves the for loop to
\* its next value
proxima_tentativa(tentativa, resp) == tentativa + 1

InitBusca ==
    /\ \E e \in Estrategias :
         /\ ma_principal = e.ma_principal
         /\ mas_referencia = e.mas_referencia
    /\ telegram \in BOOLEAN
    /\ alertas_ativos = SemAlertas
    /\ stats = StatsZero
    /\ ultimo = UltimoVazio
    /\ disparo = [m \in MOEDAS |-> {}]
    /\ seguidos = [m \in MOEDAS |-> 0]
    /\ resetou = [m \in MOEDAS |-> FALSE]
    /\ falhou = [m \in MOEDAS |-> FALSE]
    /\ reinicio = ReinicioVazio
    /\ det = DetVazio
    /\ ma = MaVazio
    /\ cfg = CfgVazio
    /\ laco = LacoVazio
    /\ tick = TickVazio
    /\ fios = FiosVazio
    /\ busca = [BuscaVazia EXCEPT !.fase = "laco"]

\* one pass of the for loop (lines 88-169) and, when it was the last, lines
\* 171-173
Tentar ==
    /\ busca.fase = "laco"
    /\ busca.tentativa < max_retries
    /\ busca.pedidos < MaxPedidos
    /\ \E resp \in Respostas :
       \E t \in {proxima_tentativa(busca.tentativa, resp)} :
         /\ busca' =
              [busca EXCEPT
                 !.pedidos = @ + 1,
                 !.respostas = Append(@, resp),
                 !.tentativa = IF resp = "ok" THEN @ ELSE t,
                 !.espera = IF resp = "ok" THEN @
                            ELSE @ + espera_apos(busca.tentativa, resp),
                 !.fase = IF resp = "ok" \/ t >= max_retries THEN "fim" ELSE "laco",
                 !.retorno = IF resp = "ok" THEN "df"
                             ELSE IF t >= max_retries THEN "None" ELSE "nenhum"]
         /\ stats' =
              IF resp = "ok" THEN [stats EXCEPT !.requests_ok = @ + 1]
              ELSE IF t >= max_retries THEN [stats EXCEPT !.requests_error = @ + 1]
              ELSE stats
    /\ UNCHANGED <<estrategia, telegram, alertas_ativos, ultimo, disparo, seguidos,
                   resetou, falhou, reinicio, det, ma, cfg, laco, tick, fios>>

NextBusca == Tentar

SpecBusca == InitBusca /\ [][NextBusca]_vars

\* the thread that called buscar_dados keeps running: every sleep and every
\* request (timeout of 30 s) ends
SpecBuscaJusta == SpecBusca /\ WF_vars(NextBusca)

SemOk(respostas, n) == \A i \in 1..n : respostas[i] # "ok"

\* C19: buscar_dados sends at most 3 requests and always returns; it returns
\* the series at the first valid response and None after the third failed
\* attempt; every failure, of whatever kind, uses up exactly one attempt.
C19_TentativasLimitadas ==
    /\ [](LET n == Len(busca.respostas) IN
          /\ busca.pedidos <= max_retries
          /\ busca.pedidos = n
          /\ busca.fase = "laco" =>
                (busca.tentativa = n /\ n < max_retries /\ SemOk(busca.respostas, n)
                   /\ stats = StatsZero)
          /\ busca.fase = "fim" =>
                \/ /\ busca.retorno = "df"
                   /\ busca.respostas[n] = "ok" /\ SemOk(busca.respostas, n - 1)
                   /\ stats.requests_ok = 1 /\ stats.requests_error = 0
                \/ /\ busca.retorno = "None"
                   /\ n = max_retries /\ SemOk(busca.respostas, n)
                   /\ stats.requests_ok = 0 /\ stats.requests_error = 1)
    /\ <>(busca.fase = "fim")

\* the series returned at the third attempt, after a 429 and a timeout
C19_Witness ==
    /\ busca.fase = "fim"
    /\ busca.retorno = "df"
    /\ busca.respostas = <<"429", "timeout", "ok">>
    /\ busca.espera = 14

====
